---- MODULE Spec2Model ----
(***************************************************************************)
(* A model of the customer/order ETL pipeline: the cleaning functions of   *)
(* etl/transform.py, the loader of etl/load.py, the extractors of          *)
(* etl/extract.py and the orchestrator run_etl of main.py.                 *)
(*                                                                         *)
(* A DataFrame is a record [cols, rows]: the set of its column names and   *)
(* the sequence of its rows.  A row is a record with one cell per column   *)
(* and the field idx, its index label, which pandas keeps through every    *)
(* filter.  A cell is one of                                               *)
(*    NaN            a missing value                                       *)
(*    Num(v)         a finite number, v in tenths (15 is 1.5)              *)
(*    Inf            the float infinity                                    *)
(*    Str(s)         a string, s its sequence of characters                *)
(*    Ts(y,m,d,tod)  a timestamp: calendar date and time of day            *)
(***************************************************************************)
EXTENDS Integers, Sequences, FiniteSets, TLC

VARIABLES
    fn,             \* the cleaning function under call, "none" in pipeline runs
    arg_df,         \* its dataset argument
    arg_customers,  \* clean_orders' customers_df argument (NoneVal: not given)
    now,            \* pd.Timestamp.now() of the call(s)
    ret,            \* what the call returned / raised (NoRet before the call)
    ret_again,      \* what the function returned on its own output
    ret_plain,      \* what clean_orders returned without a customer set
    ret_obj,        \* the object the call returned: "df" (its argument) or "new"
    arg_df_after,   \* what the dataset argument holds after the call
    arg_customers_after,    \* what the customers_df argument holds after it
    arg_table,      \* load_to_mysql's table_name argument, in calls of it alone
    pc,             \* run_etl's position
    customers,      \* run_etl's locals
    orders,
    customers_clean,
    orders_clean,
    success,        \* run_etl's return value (NoRet while running)
    exit_code,      \* main's sys.exit code (NoRet while running)
    stores,         \* the tables of the primary and the fallback store
    run_start,      \* the stores as they were when the run started
    loads,          \* the load_to_mysql calls of the run, in order
    runs            \* the runs started

cleanVars == <<fn, arg_df, arg_customers, now, ret, ret_again, ret_plain,
               ret_obj, arg_df_after, arg_customers_after, arg_table>>
runVars == <<pc, customers, orders, customers_clean, orders_clean, success,
             exit_code, run_start, runs>>
vars == <<fn, arg_df, arg_customers, now, ret, ret_again, ret_plain, ret_obj,
          arg_df_after, arg_customers_after, arg_table, pc,
          customers, orders, customers_clean, orders_clean, success, exit_code,
          stores, run_start, loads, runs>>

NoneVal == [none |-> TRUE]
NoRet == [pending |-> TRUE]

----------------------------------------------------------------------------
(* Cells *)

NaN == [t |-> "nan"]
Inf == [t |-> "inf"]
Num(v) == [t |-> "num", v |-> v]
Str(s) == [t |-> "str", s |-> s]
Ts(y, m, d, tod) == [t |-> "ts", y |-> y, m |-> m, d |-> d, tod |-> tod]

IsStr(c) == c.t = "str"
IsNull(c) == c.t = "nan"

DigitChars == <<"0", "1", "2", "3", "4", "5", "6", "7", "8", "9">>
LowerChars == <<"a", "b", "c", "d", "e", "f", "g", "h", "i", "j", "k", "l", "m",
                "n", "o", "p", "q", "r", "s", "t", "u", "v", "w", "x", "y", "z">>
UpperChars == <<"A", "B", "C", "D", "E", "F", "G", "H", "I", "J", "K", "L", "M",
                "N", "O", "P", "Q", "R", "S", "T", "U", "V", "W", "X", "Y", "Z">>
Range(f) == {f[i] : i \in DOMAIN f}
Digit == Range(DigitChars)
Alpha == Range(LowerChars) \cup Range(UpperChars)
Whitespace == {" ", "\t", "\n"}

DigitVal(c) == (CHOOSE i \in 1..10 : DigitChars[i] = c) - 1

\* The value of a string of digits.
RECURSIVE DigitsVal(_)
DigitsVal(s) ==
    IF s = <<>> THEN 0
    ELSE 10 * DigitsVal(SubSeq(s, 1, Len(s) - 1)) + DigitVal(s[Len(s)])

AllIn(s, S) == \A i \in 1..Len(s) : s[i] \in S

\* The rows of `rows` at the positions in S, in their order.
Pick(rows, S) ==
    LET F[i \in 0..Len(rows)] ==
            IF i = 0 THEN <<>>
            ELSE IF i \in S THEN Append(F[i - 1], rows[i]) ELSE F[i - 1]
    IN  F[Len(rows)]

\* DropDuplicates with keep='last'
DropDuplicates_KeepLast(rows, col) ==
    Pick(rows, {i \in 1..Len(rows) : \A j \in (i + 1)..Len(rows) : rows[j][col] # rows[i][col]})

\* df.drop_duplicates(subset=[col]): the first row of each key is kept.
DropDuplicates(rows, col) ==
    Pick(rows, {i \in 1..Len(rows) : \A j \in 1..(i - 1) : rows[j][col] # rows[i][col]})

\* df.dropna(subset=[col])
DropNa(rows, col) == SelectSeq(rows, LAMBDA r : ~IsNull(r[col]))

Column(rows, col) == [i \in 1..Len(rows) |-> rows[i][col]]

\* df.empty: no rows, or no columns
Empty(df) == df.cols = {} \/ Len(df.rows) = 0

\* pd.DataFrame()
EmptyFrame == [cols |-> {}, rows |-> <<>>]

Returned(df) == [raised |-> FALSE, df |-> df]
Raised == [raised |-> TRUE, df |-> EmptyFrame]

----------------------------------------------------------------------------
(* pandas' conversions *)

\* The number a string spells: an optional sign, digits, and at most one
\* decimal; "inf" is the infinity.  Any other string is not a number.
ParseNumber(s) ==
    LET neg == Len(s) > 0 /\ s[1] = "-"
        body == IF neg THEN SubSeq(s, 2, Len(s)) ELSE s
        n == Len(body)
        sign == IF neg THEN -1 ELSE 1
    IN  IF body = <<"i", "n", "f">> /\ ~neg THEN Inf
        ELSE IF n >= 1 /\ AllIn(body, Digit)
            THEN Num(sign * 10 * DigitsVal(body))
        ELSE IF n >= 3 /\ body[n - 1] = "." /\ body[n] \in Digit
                /\ AllIn(SubSeq(body, 1, n - 2), Digit)
            THEN Num(sign * (10 * DigitsVal(SubSeq(body, 1, n - 2)) + DigitVal(body[n])))
        ELSE NaN

\* pd.to_numeric(x, errors='coerce') of one cell
ToNumeric(c) ==
    CASE c.t = "num" -> c
      [] c.t = "inf" -> c
      [] c.t = "nan" -> NaN
      [] c.t = "str" -> ParseNumber(c.s)

\* astype(int) of one finite number: the fraction is cut off, towards zero
AsTypeInt(c) ==
    Num(IF c.v >= 0 THEN 10 * (c.v \div 10) ELSE -(10 * ((-c.v) \div 10)))

LeapYear(y) == (y % 4 = 0 /\ y % 100 # 0) \/ y % 400 = 0
DaysInMonth(y, m) ==
    IF m = 2 THEN (IF LeapYear(y) THEN 29 ELSE 28)
    ELSE IF m \in {4, 6, 9, 11} THEN 30 ELSE 31

\* The timestamp an ISO date string YYYY-MM-DD spells (at midnight); any
\* other string is not a date.
ParseDate(s) ==
    IF /\ Len(s) = 10
       /\ s[5] = "-" /\ s[8] = "-"
       /\ AllIn(SubSeq(s, 1, 4), Digit)
       /\ AllIn(SubSeq(s, 6, 7), Digit)
       /\ AllIn(SubSeq(s, 9, 10), Digit)
    THEN LET y == DigitsVal(SubSeq(s, 1, 4))
             m == DigitsVal(SubSeq(s, 6, 7))
             d == DigitsVal(SubSeq(s, 9, 10))
         IN  IF y >= 1 /\ m \in 1..12 /\ d >= 1 /\ d <= DaysInMonth(y, m)
             THEN Ts(y, m, d, 0) ELSE NaN
    ELSE NaN

\* pd.to_datetime(x, errors='coerce') of one cell
ToDatetime(c) ==
    CASE c.t = "ts" -> c
      [] c.t = "nan" -> NaN
      [] c.t = "str" -> ParseDate(c.s)

\* a <= b on timestamps
TsLeq(a, b) ==
    \/ a.y < b.y
    \/ a.y = b.y /\ a.m < b.m
    \/ a.y = b.y /\ a.m = b.m /\ a.d < b.d
    \/ a.y = b.y /\ a.m = b.m /\ a.d = b.d /\ a.tod <= b.tod

\* ts - pd.DateOffset(years=n): the same day n calendar years earlier, 29
\* February falling back on the 28th
MinusYears(ts, n) ==
    LET y == ts.y - n
        d == IF ts.d > DaysInMonth(y, ts.m) THEN DaysInMonth(y, ts.m) ELSE ts.d
    IN  Ts(y, ts.m, d, ts.tod)

LowerChar(c) ==
    IF c \in Range(UpperChars)
    THEN LowerChars[CHOOSE i \in 1..26 : UpperChars[i] = c]
    ELSE c

\* str.lower()
StrLower(s) == [i \in 1..Len(s) |-> LowerChar(s[i])]

\* str.strip()
StrStrip(s) ==
    LET keep == {i \in 1..Len(s) : s[i] \notin Whitespace}
    IN  IF keep = {} THEN <<>>
        ELSE SubSeq(s, CHOOSE i \in keep : \A j \in keep : i <= j,
                       CHOOSE i \in keep : \A j \in keep : i >= j)

\* Whether Series.str can be had of a column: its dtype must be object (it
\* held a string when the frame was built), and its values now, if any,
\* must not all be numbers.
StrAccessorFails(original, current) ==
    \/ \A i \in 1..Len(original) : ~IsStr(original[i])
    \/ /\ \E i \in 1..Len(current) : ~IsNull(current[i])
       /\ \A i \in 1..Len(current) : ~IsStr(current[i])

----------------------------------------------------------------------------
(* etl/transform.py *)

Alnum == Alpha \cup Digit
LocalChars == Alnum \cup {".", "_", "%", "+", "-"}
DomainChars == Alnum \cup {".", "-"}

\* ^[a-zA-Z0-9._%+-]+@[a-zA-Z0-9.-]+\.[a-zA-Z]{2,} up to the end of s
MatchesPattern(s) ==
    \E i \in 2..Len(s), j \in 4..Len(s) :
        /\ s[i] = "@"
        /\ AllIn(SubSeq(s, 1, i - 1), LocalChars)
        /\ j >= i + 2
        /\ s[j] = "."
        /\ AllIn(SubSeq(s, i + 1, j - 1), DomainChars)
        /\ Len(s) - j >= 2
        /\ AllIn(SubSeq(s, j + 1, Len(s)), Alpha)

\* re.match(pattern, email): $ matches at the end and before a last newline
validate_email(s) ==
    \/ MatchesPattern(s)
    \/ Len(s) > 0 /\ s[Len(s)] = "\n" /\ MatchesPattern(SubSeq(s, 1, Len(s) - 1))

CustomerColumns == {"id", "name", "email", "join_date"}
OrderColumns == {"id", "customer_id", "order_date", "total_amount"}

\* Line 45: lowercased, then stripped
NormalizeEmail(c) == Str(StrStrip(StrLower(c.s)))

\* Line 41: a name stripped, one that is no string becoming NaN
StripName(c) == IF IsStr(c) THEN Str(StrStrip(c.s)) ELSE NaN

\* The conversions the cleaning functions assign to a column
Convert(how, c) ==
    CASE how = "to_numeric" -> ToNumeric(c)
      [] how = "astype_int" -> AsTypeInt(c)
      [] how = "to_datetime" -> ToDatetime(c)
      [] how = "str_strip" -> StripName(c)
      [] how = "str_lower_strip" -> NormalizeEmail(c)

\* df[col] = the conversion of df[col]
SetCol(rows, col, how) ==
    [i \in 1..Len(rows) |-> [rows[i] EXCEPT ![col] = Convert(how, @)]]

\* Lines 32-34, 121-123 and 129-131: to_numeric, dropna and astype(int) on
\* the column col.  astype(int) raises on an infinity.
CoerceIntKey(rows, col) ==
    LET numeric == DropNa(SetCol(rows, col, "to_numeric"), col)
    IN  IF \E i \in 1..Len(numeric) : numeric[i][col] = Inf
        THEN [raised |-> TRUE, rows |-> <<>>]
        ELSE [raised |-> FALSE, rows |-> SetCol(numeric, col, "astype_int")]

\* Lines 40-42: the names are stripped (a name that is no string becomes
\* NaN) and the rows with an empty or a missing name are dropped.
CleanNames(rows) ==
    SelectSeq(SetCol(rows, "name", "str_strip"),
              LAMBDA r : IsStr(r.name) /\ Len(r.name.s) > 0)

\* CleanEmails without the check of the email
CleanEmails_Unchecked(rows) ==
    DropDuplicates(SetCol(rows, "email", "str_lower_strip"), "email")

\* CleanEmails with the duplicates dropped before the emails are normalized
CleanEmails_DedupRaw(rows) ==
    SelectSeq(SetCol(DropDuplicates(rows, "email"), "email", "str_lower_strip"),
              LAMBDA r : validate_email(r.email.s))

\* Lines 45-50: the emails are normalized, the rows whose email does not
\* match are dropped, and of the rows of one email the first is kept.
CleanEmails(rows) ==
    DropDuplicates(SelectSeq(SetCol(rows, "email", "str_lower_strip"),
                             LAMBDA r : validate_email(r.email.s)),
                   "email")

\* Lines 53-54
CleanJoinDates(rows) == DropNa(SetCol(rows, "join_date", "to_datetime"), "join_date")

clean_customers(df) ==
    IF Empty(df) THEN Returned(df)
    ELSE IF ~(CustomerColumns \subseteq df.cols) THEN Raised
    ELSE
    LET present == DropNa(DropNa(DropNa(df.rows, "id"), "name"), "email")
        keyed == CoerceIntKey(present, "id")
        unique == DropDuplicates(keyed.rows, "id")
        named == CleanNames(unique)
        mailed == CleanEmails(named)
    IN  IF keyed.raised THEN Raised
        ELSE IF StrAccessorFails(Column(df.rows, "name"), Column(unique, "name"))
            THEN Raised
        ELSE IF \/ StrAccessorFails(Column(df.rows, "email"), Column(named, "email"))
                \/ \E i \in 1..Len(named) : ~IsStr(named[i].email)
            THEN Raised
        ELSE Returned([cols |-> df.cols, rows |-> CleanJoinDates(mailed)])

\* The years an order may lie back
WindowYears == 10

\* validate_customer_ids with the orders' id looked up, not their customer_id
validate_customer_ids_ByOrderId(orders_df, customers_df) ==
    IF Empty(orders_df) \/ Empty(customers_df) THEN Returned(orders_df)
    ELSE IF "id" \notin customers_df.cols THEN Raised
    ELSE LET valid_customer_ids == Range(Column(customers_df.rows, "id"))
         IN  Returned([orders_df EXCEPT !.rows =
                 SelectSeq(@, LAMBDA r : r.id \in valid_customer_ids)])

validate_customer_ids(orders_df, customers_df) ==
    IF Empty(orders_df) \/ Empty(customers_df) THEN Returned(orders_df)
    ELSE IF "id" \notin customers_df.cols THEN Raised
    ELSE LET valid_customer_ids == Range(Column(customers_df.rows, "id"))
         IN  Returned([orders_df EXCEPT !.rows =
                 SelectSeq(@, LAMBDA r : r.customer_id \in valid_customer_ids)])

\* total_amount > 0 on one cell
Positive(c) == c = Inf \/ (c.t = "num" /\ c.v > 0)

\* validate_order_data without the check against ten_years_ago
validate_order_data_FutureOnly(df, current_date) ==
    IF Empty(df) THEN df
    ELSE [df EXCEPT !.rows =
             SelectSeq(@, LAMBDA r : /\ Positive(r.total_amount)
                                     /\ TsLeq(r.order_date, current_date))]

validate_order_data(df, current_date) ==
    IF Empty(df) THEN df
    ELSE LET ten_years_ago == MinusYears(current_date, WindowYears)
         IN  [df EXCEPT !.rows =
                 SelectSeq(@, LAMBDA r : /\ Positive(r.total_amount)
                                         /\ TsLeq(r.order_date, current_date)
                                         /\ TsLeq(ten_years_ago, r.order_date))]

\* Lines 134-140
CleanOrderFields(rows) ==
    LET dated == DropNa(SetCol(rows, "order_date", "to_datetime"), "order_date")
        amounts == DropNa(SetCol(dated, "total_amount", "to_numeric"), "total_amount")
    IN  SelectSeq(amounts, LAMBDA r : Positive(r.total_amount))

\* clean_orders with the duplicate ids dropped after the fields' checks
clean_orders_DedupLast(df, customers_df, current_date) ==
    IF Empty(df) THEN Returned(df)
    ELSE IF ~(OrderColumns \subseteq df.cols) THEN Raised
    ELSE
    LET present == DropNa(DropNa(DropNa(df.rows, "id"), "customer_id"), "total_amount")
        keyed == CoerceIntKey(present, "id")
        linked == CoerceIntKey(keyed.rows, "customer_id")
        typed == [cols |-> df.cols,
                  rows |-> DropDuplicates(CleanOrderFields(linked.rows), "id")]
        checked == IF customers_df # NoneVal
                   THEN validate_customer_ids(typed, customers_df)
                   ELSE Returned(typed)
    IN  IF keyed.raised \/ linked.raised \/ checked.raised THEN Raised
        ELSE Returned(validate_order_data(checked.df, current_date))

\* current_date is what pd.Timestamp.now() reads in validate_order_data.
clean_orders(df, customers_df, current_date) ==
    IF Empty(df) THEN Returned(df)
    ELSE IF ~(OrderColumns \subseteq df.cols) THEN Raised
    ELSE
    LET present == DropNa(DropNa(DropNa(df.rows, "id"), "customer_id"), "total_amount")
        keyed == CoerceIntKey(present, "id")
        unique == DropDuplicates(keyed.rows, "id")
        linked == CoerceIntKey(unique, "customer_id")
        typed == [cols |-> df.cols, rows |-> CleanOrderFields(linked.rows)]
        checked == IF customers_df # NoneVal
                   THEN validate_customer_ids(typed, customers_df)
                   ELSE Returned(typed)
    IN  IF keyed.raised \/ linked.raised \/ checked.raised THEN Raised
        ELSE Returned(validate_order_data(checked.df, current_date))

\* WorkingFrame without the copy
WorkingFrame_NoCopy(df) == "df"

\* Lines 24 and 113, df = df.copy(): the frame the local name df is bound
\* to from there on, which the column assignments of the lines after write
\* to: a copy of the argument, not the argument ("df")
WorkingFrame(df) == "copy"

\* Lines 20-22 and 109-111 return the argument itself when it is empty; lines
\* 57 and 150 return the frame the last filter made.
ReturnedObject(df) == IF Empty(df) THEN "df" ELSE "new"

\* What the dataset argument holds after a call that returned or raised:
\* the column assignments (lines 32-53, 121-138) are reached with a dataset
\* that is not empty, and write to the working frame.
ArgumentAfter(df, returned) ==
    IF ~Empty(df) /\ WorkingFrame(df) = "df" /\ ~returned.raised
    THEN returned.df
    ELSE df

\* What customers_df holds after clean_orders: validate_customer_ids reads
\* customers_df.empty and customers_df['id'] (lines 63-67) and assigns nothing.
CustomersAfter(customers_df) == customers_df

----------------------------------------------------------------------------
(* etl/extract.py *)

\* A file is a record [state, df]: whether it is there and can be read and
\* parsed, and then the frame pd.read_csv makes of it.
validate_file_exists(file) == file.state \notin {"missing", "unreadable"}

validate_csv_structure(df, expected_columns) ==
    IF ~(expected_columns \subseteq df.cols) THEN FALSE
    ELSE IF Empty(df) THEN FALSE
    ELSE TRUE

\* extract_customers and extract_orders differ in expected_columns alone.
Extract(file, expected_columns) ==
    IF ~validate_file_exists(file) THEN EmptyFrame
    ELSE IF file.state \in {"empty_data", "parse_error"} THEN EmptyFrame
    ELSE IF ~validate_csv_structure(file.df, expected_columns) THEN EmptyFrame
    ELSE file.df

extract_customers(file) == Extract(file, CustomerColumns)
extract_orders(file) == Extract(file, OrderColumns)

----------------------------------------------------------------------------
(* etl/load.py *)

\* A store holds the tables customers and orders; a table is Absent or the
\* sequence of its rows.
Absent == [absent |-> TRUE]
Table(rows) == [absent |-> FALSE, rows |-> rows]
NoTables == [customers |-> Absent, orders |-> Absent]

\* What the environment does to one load_to_mysql call:
\*   config   the state of config/db_config.json and of the MySQL server
\*   mock     whether create_engine gives the SQLite engine
\*   connect  whether engine.connect() succeeds in create_table_if_not_exists
\*   query    whether the existence query of the engine's dialect succeeds
\*   create   how df.head(0).to_sql ends
\*   write    how df.to_sql ends
\* A to_sql that fails leaves the table as it was ("fail"), dropped
\* ("fail_dropped") or, the rows' insert failing, created without rows
\* ("fail_created").
ConfigStates == {"ok", "missing", "invalid_json", "missing_fields", "unreachable"}
ToSqlOutcomes == {"ok", "fail", "fail_dropped", "fail_created"}
LoadEnvs ==
    [config : ConfigStates, mock : BOOLEAN, connect : BOOLEAN, query : BOOLEAN,
     create : ToSqlOutcomes \ {"fail_created"}, write : ToSqlOutcomes]

\* Whether get_db_config returns an engine (and not None)
get_db_config(config) == config = "ok"

\* Whether get_mock_db_config returns an engine
get_mock_db_config(mock) == mock

\* validate_dataframe without the check of the columns
validate_dataframe_NoColumns(df, table_name) ==
    IF Empty(df) THEN FALSE
    ELSE table_name \in {"customers", "orders"}

validate_dataframe(df, table_name) ==
    IF Empty(df) THEN FALSE
    ELSE IF table_name \notin {"customers", "orders"} THEN FALSE
    ELSE LET required_columns ==
                 IF table_name = "customers" THEN CustomerColumns ELSE OrderColumns
         IN  required_columns \subseteq df.cols

\* What to_sql(index=False) writes of a frame: its rows without the index
TableRows(df) == [i \in 1..Len(df.rows) |-> [c \in df.cols |-> df.rows[i][c]]]

\* ToSql with if_exists='append'
ToSql_Append(table, rows, outcome) ==
    CASE outcome = "ok" -> Table((IF table = Absent THEN <<>> ELSE table.rows) \o rows)
      [] outcome = "fail" -> table
      [] outcome = "fail_dropped" -> Absent
      [] outcome = "fail_created" -> Table(<<>>)

\* to_sql(name, con, if_exists='replace', index=False) of the rows on a table
ToSql(table, rows, outcome) ==
    CASE outcome = "ok" -> Table(rows)
      [] outcome = "fail" -> table
      [] outcome = "fail_dropped" -> Absent
      [] outcome = "fail_created" -> Table(<<>>)

\* [raised, table, creating]: whether it raised, the table after it, and
\* whether it went to create the table.  SHOW TABLES is MySQL's and fails on
\* SQLite; sqlite_master is SQLite's and fails on MySQL.
create_table_if_not_exists(engine, table, env) ==
    IF ~env.connect THEN [raised |-> TRUE, table |-> table, creating |-> FALSE]
    ELSE
    LET show_tables == engine = "primary" /\ env.query
        sqlite_master == engine = "fallback" /\ env.query
        table_exists == IF show_tables THEN table # Absent
                        ELSE IF sqlite_master THEN table # Absent
                        ELSE FALSE
    IN  IF ~table_exists
        THEN [raised |-> env.create # "ok",
              table |-> ToSql(table, <<>>, env.create),
              creating |-> TRUE]
        ELSE [raised |-> FALSE, table |-> table, creating |-> FALSE]

\* SelectEngine without the SQLite engine
SelectEngine_NoFallback(env) ==
    IF get_db_config(env.config) THEN "primary" ELSE "none"

\* The engine load_to_mysql works with: lines 148-153
SelectEngine(env) ==
    IF get_db_config(env.config) THEN "primary"
    ELSE IF get_mock_db_config(env.mock) THEN "fallback"
    ELSE "none"

\* What a call leaves: whether it raised, its return value (FALSE standing
\* for none when it raised), the stores, and what its log lines tell: the
\* engine it worked with, whether the table was there, whether it went to
\* create it; asked is what it asked of its environment.
LoadResult(raised, returned, st, engine, existed, creating, asked) ==
    [raised |-> raised, ret |-> returned, stores |-> st, engine |-> engine,
     existed |-> existed, creating |-> creating, asked |-> asked]

\* Lines 144-165, the body of load_to_mysql's try: create_table_if_not_exists
\* re-raises and a failing to_sql raises.
LoadBody(df, table_name, st, env) ==
    IF ~validate_dataframe(df, table_name)
    THEN LoadResult(FALSE, FALSE, st, "none", FALSE, FALSE, {})
    ELSE
    LET engine == SelectEngine(env)
        engines == IF get_db_config(env.config) THEN {"config"} ELSE {"config", "mock"}
    IN  IF engine = "none"
        THEN LoadResult(FALSE, FALSE, st, "none", FALSE, FALSE, engines)
        ELSE
        LET before == st[engine][table_name]
            created == create_table_if_not_exists(engine, before, env)
            written == ToSql(created.table, TableRows(df), env.write)
            creation == engines \cup {"connect"}
                        \cup (IF env.connect THEN {"query"} ELSE {})
                        \cup (IF created.creating THEN {"create"} ELSE {})
        IN  IF created.raised
            THEN LoadResult(TRUE, FALSE,
                            [st EXCEPT ![engine][table_name] = created.table],
                            engine, before # Absent, created.creating, creation)
            ELSE LoadResult(env.write # "ok", env.write = "ok",
                            [st EXCEPT ![engine][table_name] = written],
                            engine, before # Absent, created.creating,
                            creation \cup {"write"})

\* HandleLoadError with return False after the except clause, not in it
HandleLoadError_ReturnFalse(result) == [result EXCEPT !.raised = FALSE, !.ret = FALSE]

\* HandleLoadError without the except clause
HandleLoadError_Reraise(result) == result

\* Lines 142 and 167-169, try ... except Exception: an exception of the
\* body is logged and False returned.
HandleLoadError(result) ==
    IF result.raised THEN [result EXCEPT !.raised = FALSE, !.ret = FALSE]
    ELSE result

load_to_mysql(df, table_name, st, env) ==
    HandleLoadError(LoadBody(df, table_name, st, env))

\* What the environment answered to what the call asked of it
Answers(env, asked) ==
    LET Answer(q, yes, a, b) == IF q \notin asked THEN "unasked" ELSE IF yes THEN a ELSE b
    IN  [config |-> Answer("config", get_db_config(env.config), "engine", "none"),
         mock |-> Answer("mock", get_mock_db_config(env.mock), "engine", "none"),
         connect |-> Answer("connect", env.connect, "ok", "failed"),
         query |-> Answer("query", env.query, "ok", "failed"),
         create |-> Answer("create", env.create = "ok", "ok", "failed"),
         write |-> Answer("write", env.write = "ok", "ok", "failed")]

----------------------------------------------------------------------------
(* The datasets the functions are called on *)

\* pd.DataFrame of the rows given, under a RangeIndex
Frame(cols, cells) ==
    [cols |-> cols,
     rows |-> [i \in 1..Len(cells) |->
                 [c \in cols \cup {"idx"} |-> IF c = "idx" THEN i - 1 ELSE cells[i][c]]]]

SeqsUpTo(S, n) == UNION {[1..k -> S] : k \in 0..n}

CustomerRow(id, name, email, join_date) ==
    [id |-> id, name |-> name, email |-> email, join_date |-> join_date]
OrderRow(id, customer_id, order_date, total_amount) ==
    [id |-> id, customer_id |-> customer_id, order_date |-> order_date,
     total_amount |-> total_amount]

CustomerRowSamples == {
    \* valid
    CustomerRow(Num(10), Str(<<"A", "l">>),
                Str(<<"a", "@", "b", ".", "c", "o">>),
                Str(<<"2", "0", "2", "4", "-", "0", "9", "-", "0", "8">>)),
    \* valid, name to strip
    CustomerRow(Num(20), Str(<<" ", "B", "o", " ">>),
                Str(<<"c", "@", "d", ".", "o", "r", "g">>),
                Str(<<"2", "0", "2", "4", "-", "0", "9", "-", "0", "7">>)),
    \* the id of the row above, the normalized email of the first
    CustomerRow(Num(20), Str(<<"C", "y">>),
                Str(<<" ", "A", "@", "B", ".", "c", "o">>),
                Str(<<"2", "0", "2", "4", "-", "0", "9", "-", "0", "7">>)),
    \* the email of the first
    CustomerRow(Num(30), Str(<<"D", "i">>),
                Str(<<"a", "@", "b", ".", "c", "o">>),
                Str(<<"2", "0", "2", "4", "-", "0", "2", "-", "2", "9">>)),
    \* an id that is no integer
    CustomerRow(Str(<<"1", ".", "5">>), Str(<<"E", "d">>),
                Str(<<"e", "@", "f", ".", "i", "o">>),
                Str(<<"2", "0", "2", "4", "-", "0", "9", "-", "0", "8">>)),
    \* an id that is no number
    CustomerRow(Str(<<"x">>), Str(<<"F", "y">>),
                Str(<<"e", "@", "f", ".", "i", "o">>),
                Str(<<"2", "0", "2", "4", "-", "0", "9", "-", "0", "8">>)),
    \* no id
    CustomerRow(NaN, Str(<<"G", "i">>),
                Str(<<"e", "@", "f", ".", "i", "o">>),
                Str(<<"2", "0", "2", "4", "-", "0", "9", "-", "0", "8">>)),
    \* an infinite id
    CustomerRow(Inf, Str(<<"H", "u">>),
                Str(<<"e", "@", "f", ".", "i", "o">>),
                Str(<<"2", "0", "2", "4", "-", "0", "9", "-", "0", "8">>)),
    \* a blank name
    CustomerRow(Num(40), Str(<<" ">>),
                Str(<<"g", "@", "h", ".", "n", "e", "t">>),
                Str(<<"2", "0", "2", "4", "-", "0", "9", "-", "0", "8">>)),
    \* a number for a name
    CustomerRow(Num(40), Num(50),
                Str(<<"g", "@", "h", ".", "n", "e", "t">>),
                Str(<<"2", "0", "2", "4", "-", "0", "9", "-", "0", "8">>)),
    \* the id of the first, an email without a top-level domain
    CustomerRow(Num(10), Str(<<"I", "o">>),
                Str(<<"a", "@", "b">>),
                Str(<<"2", "0", "2", "4", "-", "0", "9", "-", "0", "8">>)),
    \* the id of the first, no email
    CustomerRow(Num(10), Str(<<"J", "o">>),
                NaN,
                Str(<<"2", "0", "2", "4", "-", "0", "9", "-", "0", "8">>)),
    \* a number for an email
    CustomerRow(Num(60), Str(<<"K", "y">>),
                Num(70),
                Str(<<"2", "0", "2", "4", "-", "0", "9", "-", "0", "8">>)),
    \* a date that does not exist
    CustomerRow(Num(60), Str(<<"L", "i">>),
                Str(<<"i", "@", "j", ".", "u", "k">>),
                Str(<<"2", "0", "2", "3", "-", "0", "2", "-", "2", "9">>)),
    \* no join_date
    CustomerRow(Num(70), Str(<<"M", "o">>),
                Str(<<"i", "@", "j", ".", "u", "k">>),
                NaN)}

OrderRowSamples == {
    \* valid
    OrderRow(Num(100), Num(10),
             Str(<<"2", "0", "2", "4", "-", "0", "1", "-", "1", "0">>), Num(125)),
    \* valid
    OrderRow(Num(110), Num(20),
             Str(<<"2", "0", "2", "4", "-", "0", "2", "-", "2", "9">>), Num(70)),
    \* the id of the first
    OrderRow(Num(100), Num(20),
             Str(<<"2", "0", "2", "4", "-", "0", "1", "-", "1", "0">>), Num(50)),
    \* the id of the first, and nothing to pay
    OrderRow(Num(100), Num(10),
             Str(<<"2", "0", "2", "4", "-", "0", "1", "-", "1", "0">>), Num(0)),
    \* a customer nobody knows
    OrderRow(Num(120), Num(990),
             Str(<<"2", "0", "2", "4", "-", "0", "1", "-", "1", "0">>), Num(50)),
    \* a negative amount
    OrderRow(Num(130), Num(10),
             Str(<<"2", "0", "2", "4", "-", "0", "1", "-", "1", "0">>), Num(-50)),
    \* the id of the second, an amount that is no number
    OrderRow(Num(110), Num(10),
             Str(<<"2", "0", "2", "4", "-", "0", "1", "-", "1", "0">>), Str(<<"a", "b", "c">>)),
    \* the id of the second, no amount
    OrderRow(Num(110), Num(10),
             Str(<<"2", "0", "2", "4", "-", "0", "1", "-", "1", "0">>), NaN),
    \* eleven years before the leap-day instant
    OrderRow(Num(140), Num(10),
             Str(<<"2", "0", "1", "3", "-", "0", "2", "-", "2", "8">>), Num(50)),
    \* ten years before the leap-day instant
    OrderRow(Num(150), Num(20),
             Str(<<"2", "0", "1", "4", "-", "0", "2", "-", "2", "8">>), Num(50)),
    \* after both instants
    OrderRow(Num(150), Num(10),
             Str(<<"2", "0", "2", "5", "-", "0", "6", "-", "1", "6">>), Num(50)),
    \* ten years before the other instant, at midnight
    OrderRow(Num(160), Num(10),
             Str(<<"2", "0", "1", "5", "-", "0", "6", "-", "1", "5">>), Num(50)),
    \* a date that is none
    OrderRow(Num(160), Num(10),
             Str(<<"n", "/", "a">>), Num(50)),
    \* no date
    OrderRow(Num(170), Num(10),
             NaN, Num(50)),
    \* an id that is no integer
    OrderRow(Str(<<"1", "0", ".", "5">>), Num(10),
             Str(<<"2", "0", "2", "4", "-", "0", "1", "-", "1", "0">>), Num(50)),
    \* an id that is no number
    OrderRow(Str(<<"x">>), Num(10),
             Str(<<"2", "0", "2", "4", "-", "0", "1", "-", "1", "0">>), Num(50)),
    \* an infinite id
    OrderRow(Inf, Num(10),
             Str(<<"2", "0", "2", "4", "-", "0", "1", "-", "1", "0">>), Num(50)),
    \* a customer_id that is no number
    OrderRow(Num(180), Str(<<"t">>),
             Str(<<"2", "0", "2", "4", "-", "0", "1", "-", "1", "0">>), Num(50)),
    \* a customer_id that is no integer
    OrderRow(Num(180), Str(<<"1", ".", "5">>),
             Str(<<"2", "0", "2", "4", "-", "0", "1", "-", "1", "0">>), Num(50)),
    \* no customer_id
    OrderRow(Num(190), NaN,
             Str(<<"2", "0", "2", "4", "-", "0", "1", "-", "1", "0">>), Num(50))}

\* The most rows of a customers / an orders dataset
MaxCustomerRows == 3
MaxOrderRows == 2

CustomerInputs ==
    {Frame(CustomerColumns, x) : x \in SeqsUpTo(CustomerRowSamples, MaxCustomerRows)}
OrderInputs ==
    {Frame(OrderColumns, x) : x \in SeqsUpTo(OrderRowSamples, MaxOrderRows)}

\* The customer sets clean_orders is given: cleaned customers 1; 1 and 2;
\* none at all (every row was dropped); or no set (NoneVal)
CustomerSetSamples ==
    {clean_customers(Frame(CustomerColumns, x)).df : x \in
        {<<CustomerRow(Num(10), Str(<<"A", "l">>), Str(<<"a", "@", "b", ".", "c", "o">>), Str(<<"2", "0", "2", "4", "-", "0", "9", "-", "0", "8">>))>>,
         <<CustomerRow(Num(10), Str(<<"A", "l">>), Str(<<"a", "@", "b", ".", "c", "o">>), Str(<<"2", "0", "2", "4", "-", "0", "9", "-", "0", "8">>)),
           CustomerRow(Num(20), Str(<<"B", "o">>), Str(<<"c", "@", "d", ".", "o", "r", "g">>), Str(<<"2", "0", "2", "4", "-", "0", "9", "-", "0", "7">>))>>,
         <<CustomerRow(NaN, Str(<<"G", "i">>), Str(<<"e", "@", "f", ".", "i", "o">>), Str(<<"2", "0", "2", "4", "-", "0", "9", "-", "0", "8">>))>>}}
    \cup {NoneVal}

\* The instants a call is made at: an afternoon, and the midnight that
\* starts a leap day
NowSamples == {Ts(2025, 6, 15, 1), Ts(2024, 2, 29, 0)}

----------------------------------------------------------------------------
(* main.py *)

File(state, df) == [state |-> state, df |-> df]

\* data/customers.csv: customers 1 and 2; customer 1 alone; a customer whose
\* email is none; names that are numbers; no row; a column short; no file
CustomersFiles == {
    File("ok", Frame(CustomerColumns,
        <<CustomerRow(Num(10), Str(<<"A", "l">>), Str(<<"a", "@", "b", ".", "c", "o">>), Str(<<"2", "0", "2", "4", "-", "0", "9", "-", "0", "8">>)),
          CustomerRow(Num(20), Str(<<"B", "o">>), Str(<<"c", "@", "d", ".", "o", "r", "g">>), Str(<<"2", "0", "2", "4", "-", "0", "9", "-", "0", "7">>))>>)),
    File("ok", Frame(CustomerColumns,
        <<CustomerRow(Num(10), Str(<<"A", "l">>), Str(<<"a", "@", "b", ".", "c", "o">>), Str(<<"2", "0", "2", "4", "-", "0", "9", "-", "0", "8">>))>>)),
    File("ok", Frame(CustomerColumns,
        <<CustomerRow(Num(30), Str(<<"I", "o">>), Str(<<"a", "@", "b">>), Str(<<"2", "0", "2", "4", "-", "0", "9", "-", "0", "8">>))>>)),
    File("ok", Frame(CustomerColumns,
        <<CustomerRow(Num(40), Num(50), Str(<<"a", "@", "b", ".", "c", "o">>), Str(<<"2", "0", "2", "4", "-", "0", "9", "-", "0", "8">>))>>)),
    File("ok", Frame(CustomerColumns, <<>>)),
    File("ok", Frame(CustomerColumns \ {"email"},
        <<[id |-> Num(10), name |-> Str(<<"A", "l">>), join_date |-> Str(<<"2", "0", "2", "4", "-", "0", "9", "-", "0", "8">>)]>>)),
    File("parse_error", EmptyFrame),
    File("missing", EmptyFrame)}

\* data/orders.csv: an order of each customer; an order of a customer nobody
\* knows; an infinite id; no data; a file that cannot be read
OrdersFiles == {
    File("ok", Frame(OrderColumns,
        <<OrderRow(Num(100), Num(10), Str(<<"2", "0", "2", "4", "-", "0", "1", "-", "1", "0">>), Num(125)),
          OrderRow(Num(110), Num(20), Str(<<"2", "0", "2", "4", "-", "0", "1", "-", "1", "0">>), Num(70))>>)),
    File("ok", Frame(OrderColumns,
        <<OrderRow(Num(120), Num(990), Str(<<"2", "0", "2", "4", "-", "0", "1", "-", "1", "0">>), Num(50))>>)),
    File("ok", Frame(OrderColumns,
        <<OrderRow(Inf, Num(10), Str(<<"2", "0", "2", "4", "-", "0", "1", "-", "1", "0">>), Num(50))>>)),
    File("empty_data", EmptyFrame),
    File("unreadable", EmptyFrame)}

\* The most runs of the pipeline
MaxRuns == 2

\* What a load_to_mysql call of the run leaves in the log: its table, what
\* the environment did to it, and what LoadResult tells
LoadCall(table_name, env, result) ==
    [table_name |-> table_name, env |-> Answers(env, result.asked),
     raised |-> result.raised, ret |-> result.ret,
     engine |-> result.engine, existed |-> result.existed,
     creating |-> result.creating]

RunIdle ==
    /\ pc = "idle"
    /\ customers = EmptyFrame
    /\ orders = EmptyFrame
    /\ customers_clean = EmptyFrame
    /\ orders_clean = EmptyFrame
    /\ success = FALSE
    /\ exit_code = -1
    /\ stores = [primary |-> NoTables, fallback |-> NoTables]
    /\ run_start = stores
    /\ loads = <<>>
    /\ runs = 0

Init ==
    /\ fn = "none"
    /\ arg_df = EmptyFrame
    /\ arg_customers = NoneVal
    /\ now = Ts(2024, 2, 29, 0)
    /\ ret = NoRet
    /\ ret_again = NoRet
    /\ ret_plain = NoRet
    /\ ret_obj = "none"
    /\ arg_df_after = arg_df
    /\ arg_customers_after = arg_customers
    /\ arg_table = "none"
    /\ RunIdle

\* return False / return True of run_etl
Return(value) ==
    /\ success' = value
    /\ pc' = "returned"

\* main() is called: a new process, with no data of the runs before it
StartRun ==
    /\ pc \in {"idle", "exited"}
    /\ runs < MaxRuns
    /\ runs' = runs + 1
    /\ pc' = "extract_customers"
    /\ customers' = EmptyFrame
    /\ orders' = EmptyFrame
    /\ customers_clean' = EmptyFrame
    /\ orders_clean' = EmptyFrame
    /\ success' = FALSE
    /\ exit_code' = -1
    /\ run_start' = stores
    /\ loads' = <<>>
    /\ UNCHANGED <<cleanVars, stores>>

\* Lines 28-31
ExtractCustomers ==
    /\ pc = "extract_customers"
    /\ \E file \in CustomersFiles :
        /\ customers' = extract_customers(file)
        /\ IF Empty(customers') THEN Return(FALSE)
           ELSE pc' = "extract_orders" /\ UNCHANGED success
    /\ UNCHANGED <<cleanVars, orders, customers_clean, orders_clean, exit_code,
                   stores, run_start, loads, runs>>

\* Lines 33-36
ExtractOrders ==
    /\ pc = "extract_orders"
    /\ \E file \in OrdersFiles :
        /\ orders' = extract_orders(file)
        /\ IF Empty(orders') THEN Return(FALSE)
           ELSE pc' = "clean_customers" /\ UNCHANGED success
    /\ UNCHANGED <<cleanVars, customers, customers_clean, orders_clean, exit_code,
                   stores, run_start, loads, runs>>

\* Lines 40-50
CleanCustomers ==
    /\ pc = "clean_customers"
    /\ LET cleaned == clean_customers(customers)
       IN  IF cleaned.raised
           THEN Return(FALSE) /\ UNCHANGED customers_clean
           ELSE /\ customers_clean' = cleaned.df
                /\ IF Empty(cleaned.df) THEN Return(FALSE)
                   ELSE pc' = "clean_orders" /\ UNCHANGED success
    /\ UNCHANGED <<cleanVars, customers, orders, orders_clean, exit_code, stores,
                   run_start, loads, runs>>

\* Lines 52-62; the clock does not run backwards
CleanOrders ==
    /\ pc = "clean_orders"
    /\ \E current_date \in NowSamples :
        /\ TsLeq(now, current_date)
        /\ now' = current_date
        /\ LET cleaned == clean_orders(orders, customers_clean, current_date)
           IN  IF cleaned.raised
               THEN Return(FALSE) /\ UNCHANGED orders_clean
               ELSE /\ orders_clean' = cleaned.df
                    /\ pc' = "load_customers"
                    /\ UNCHANGED success
    /\ UNCHANGED <<fn, arg_df, arg_customers, ret, ret_again, ret_plain, ret_obj,
                   arg_df_after, arg_customers_after, arg_table>>
    /\ UNCHANGED <<customers, orders, customers_clean, exit_code, stores,
                   run_start, loads, runs>>

\* LoadCustomers with the extracted customers loaded, not the cleaned
LoadCustomers_Raw ==
    /\ pc = "load_customers"
    /\ \E env \in LoadEnvs :
        LET customers_loaded == load_to_mysql(customers, "customers", stores, env)
        IN  /\ stores' = customers_loaded.stores
            /\ loads' = Append(loads, LoadCall("customers", env, customers_loaded))
            /\ IF ~customers_loaded.ret THEN Return(FALSE)
               ELSE pc' = "load_orders" /\ UNCHANGED success
    /\ UNCHANGED <<cleanVars, customers, orders, customers_clean, orders_clean,
                   exit_code, run_start, runs>>

\* LoadCustomers going on to the orders whatever customers_loaded is
LoadCustomers_IgnoreFailure ==
    /\ pc = "load_customers"
    /\ \E env \in LoadEnvs :
        LET customers_loaded == load_to_mysql(customers_clean, "customers", stores, env)
        IN  /\ stores' = customers_loaded.stores
            /\ loads' = Append(loads, LoadCall("customers", env, customers_loaded))
            /\ pc' = "load_orders"
            /\ UNCHANGED success
    /\ UNCHANGED <<cleanVars, customers, orders, customers_clean, orders_clean,
                   exit_code, run_start, runs>>

\* Lines 66-74
LoadCustomers ==
    /\ pc = "load_customers"
    /\ \E env \in LoadEnvs :
        LET customers_loaded == load_to_mysql(customers_clean, "customers", stores, env)
        IN  /\ stores' = customers_loaded.stores
            /\ loads' = Append(loads, LoadCall("customers", env, customers_loaded))
            /\ IF ~customers_loaded.ret THEN Return(FALSE)
               ELSE pc' = "load_orders" /\ UNCHANGED success
    /\ UNCHANGED <<cleanVars, customers, orders, customers_clean, orders_clean,
                   exit_code, run_start, runs>>

\* LoadOrders with orders_loaded not looked at
LoadOrders_IgnoreFailure ==
    /\ pc = "load_orders"
    /\ ~Empty(orders_clean)
    /\ \E env \in LoadEnvs :
        LET orders_loaded == load_to_mysql(orders_clean, "orders", stores, env)
        IN  /\ stores' = orders_loaded.stores
            /\ loads' = Append(loads, LoadCall("orders", env, orders_loaded))
            /\ Return(TRUE)
    /\ UNCHANGED <<cleanVars, customers, orders, customers_clean, orders_clean,
                   exit_code, run_start, runs>>

\* Lines 76-88, the cleaned orders not empty
LoadOrders ==
    /\ pc = "load_orders"
    /\ ~Empty(orders_clean)
    /\ \E env \in LoadEnvs :
        LET orders_loaded == load_to_mysql(orders_clean, "orders", stores, env)
        IN  /\ stores' = orders_loaded.stores
            /\ loads' = Append(loads, LoadCall("orders", env, orders_loaded))
            /\ IF ~orders_loaded.ret THEN Return(FALSE) ELSE Return(TRUE)
    /\ UNCHANGED <<cleanVars, customers, orders, customers_clean, orders_clean,
                   exit_code, run_start, runs>>

\* Lines 76 and 87-88, the cleaned orders empty: customers alone are loaded
SkipOrders ==
    /\ pc = "load_orders"
    /\ Empty(orders_clean)
    /\ Return(TRUE)
    /\ UNCHANGED <<cleanVars, customers, orders, customers_clean, orders_clean,
                   exit_code, stores, run_start, loads, runs>>

\* main, lines 99-105
Exit ==
    /\ pc = "returned"
    /\ exit_code' = IF success THEN 0 ELSE 1
    /\ pc' = "exited"
    /\ UNCHANGED <<cleanVars, customers, orders, customers_clean, orders_clean,
                   success, stores, run_start, loads, runs>>

Next ==
    \/ StartRun
    \/ ExtractCustomers
    \/ ExtractOrders
    \/ CleanCustomers
    \/ CleanOrders
    \/ LoadCustomers
    \/ LoadOrders
    \/ SkipOrders
    \/ Exit

Spec == Init /\ [][Next]_vars

----------------------------------------------------------------------------
(* Calls of the cleaning functions *)

InitClean ==
    /\ \/ /\ fn = "clean_customers"
          /\ arg_df \in CustomerInputs
          /\ arg_customers = NoneVal
          /\ now \in NowSamples
       \/ /\ fn = "clean_orders"
          /\ arg_df \in OrderInputs
          /\ arg_customers \in CustomerSetSamples
          /\ now \in NowSamples
    /\ ret = NoRet
    /\ ret_again = NoRet
    /\ ret_plain = NoRet
    /\ ret_obj = "none"
    /\ arg_df_after = arg_df
    /\ arg_customers_after = arg_customers
    /\ arg_table = "none"
    /\ RunIdle

\* clean_customers(arg_df)
CallCleanCustomers ==
    /\ fn = "clean_customers"
    /\ ret = NoRet
    /\ ret' = clean_customers(arg_df)
    /\ ret_obj' = ReturnedObject(arg_df)
    /\ arg_df_after' = ArgumentAfter(arg_df_after, ret')
    /\ UNCHANGED <<fn, arg_df, arg_customers, now, ret_again, ret_plain,
                   arg_customers_after, arg_table>>
    /\ UNCHANGED <<runVars, stores, loads>>

\* clean_customers of what clean_customers returned
CallCleanCustomersAgain ==
    /\ fn = "clean_customers"
    /\ ret # NoRet
    /\ ~ret.raised
    /\ ret_again = NoRet
    /\ ret_again' = clean_customers(ret.df)
    /\ UNCHANGED <<fn, arg_df, arg_customers, now, ret, ret_plain, ret_obj,
                   arg_df_after, arg_customers_after, arg_table>>
    /\ UNCHANGED <<runVars, stores, loads>>

\* clean_orders(arg_df, arg_customers), the clock reading now
CallCleanOrders ==
    /\ fn = "clean_orders"
    /\ ret = NoRet
    /\ ret' = clean_orders(arg_df, arg_customers, now)
    /\ ret_obj' = ReturnedObject(arg_df)
    /\ arg_df_after' = ArgumentAfter(arg_df_after, ret')
    /\ arg_customers_after' = CustomersAfter(arg_customers_after)
    /\ UNCHANGED <<fn, arg_df, arg_customers, now, ret_again, ret_plain, arg_table>>
    /\ UNCHANGED <<runVars, stores, loads>>

\* clean_orders of what clean_orders returned, the customer set and the
\* clock's reading the same
CallCleanOrdersAgain ==
    /\ fn = "clean_orders"
    /\ ret # NoRet
    /\ ~ret.raised
    /\ ret_again = NoRet
    /\ ret_again' = clean_orders(ret.df, arg_customers, now)
    /\ UNCHANGED <<fn, arg_df, arg_customers, now, ret, ret_plain, ret_obj,
                   arg_df_after, arg_customers_after, arg_table>>
    /\ UNCHANGED <<runVars, stores, loads>>

\* clean_orders(arg_df), the clock's reading the same
CallCleanOrdersPlain ==
    /\ fn = "clean_orders"
    /\ ret_plain = NoRet
    /\ ret_plain' = clean_orders(arg_df, NoneVal, now)
    /\ arg_df_after' = ArgumentAfter(arg_df_after, ret_plain')
    /\ UNCHANGED <<fn, arg_df, arg_customers, now, ret, ret_again, ret_obj,
                   arg_customers_after, arg_table>>
    /\ UNCHANGED <<runVars, stores, loads>>

NextClean ==
    \/ CallCleanCustomers
    \/ CallCleanCustomersAgain
    \/ CallCleanOrders
    \/ CallCleanOrdersAgain
    \/ CallCleanOrdersPlain

SpecClean == InitClean /\ [][NextClean]_vars

----------------------------------------------------------------------------
(* Calls of load_to_mysql *)

\* The datasets load_to_mysql is called on: a customer; an order; a customer
\* without the column email; an order without the column total_amount;
\* customers' columns and no row; pd.DataFrame()
LoadInputs == {
    Frame(CustomerColumns,
        <<CustomerRow(Num(10), Str(<<"A", "l">>), Str(<<"a", "@", "b", ".", "c", "o">>), Ts(2024, 9, 8, 0))>>),
    Frame(OrderColumns,
        <<OrderRow(Num(100), Num(10), Ts(2024, 1, 10, 0), Num(125))>>),
    Frame(CustomerColumns \ {"email"},
        <<[id |-> Num(10), name |-> Str(<<"A", "l">>), join_date |-> Ts(2024, 9, 8, 0)]>>),
    Frame(OrderColumns \ {"total_amount"},
        <<[id |-> Num(100), customer_id |-> Num(10), order_date |-> Ts(2024, 1, 10, 0)]>>),
    Frame(CustomerColumns, <<>>),
    EmptyFrame}

\* The table names it is called with
TableNames == {"customers", "orders", "unknown_table"}

\* What the stores hold before the calls: nothing, or in each store the
\* tables an earlier load left
StoresBefore ==
    LET earlier == [customers |-> Table(<<[id |-> Num(20), name |-> Str(<<"B", "o">>),
                                           email |-> Str(<<"c", "@", "d", ".", "o", "r", "g">>),
                                           join_date |-> Ts(2024, 9, 7, 0)]>>),
                    orders |-> Table(<<>>)]
    IN  {[primary |-> NoTables, fallback |-> NoTables],
         [primary |-> earlier, fallback |-> earlier]}

\* The most calls of load_to_mysql in a row, on one dataset
MaxLoadCalls == 2

InitLoad ==
    /\ fn = "load_to_mysql"
    /\ arg_df \in LoadInputs
    /\ arg_table \in TableNames
    /\ arg_customers = NoneVal
    /\ now = Ts(2024, 2, 29, 0)
    /\ ret = NoRet
    /\ ret_again = NoRet
    /\ ret_plain = NoRet
    /\ ret_obj = "none"
    /\ arg_df_after = arg_df
    /\ arg_customers_after = arg_customers
    /\ pc = "idle"
    /\ customers = EmptyFrame
    /\ orders = EmptyFrame
    /\ customers_clean = EmptyFrame
    /\ orders_clean = EmptyFrame
    /\ success = FALSE
    /\ exit_code = -1
    /\ stores \in StoresBefore
    /\ run_start = stores
    /\ loads = <<>>
    /\ runs = 0

\* load_to_mysql(arg_df, arg_table)
CallLoad ==
    /\ fn = "load_to_mysql"
    /\ Len(loads) < MaxLoadCalls
    /\ \E env \in LoadEnvs :
        LET loaded == load_to_mysql(arg_df, arg_table, stores, env)
        IN  /\ stores' = loaded.stores
            /\ loads' = Append(loads, LoadCall(arg_table, env, loaded))
    /\ UNCHANGED <<cleanVars, runVars>>

NextLoad == CallLoad

SpecLoad == InitLoad /\ [][NextLoad]_vars

----------------------------------------------------------------------------
(* The claims *)

CleanOrdersReturned == fn = "clean_orders" /\ ret # NoRet /\ ~ret.raised
CleanCustomersReturned == fn = "clean_customers" /\ ret # NoRet /\ ~ret.raised

\* C1: when clean_orders is given a customer set, be it one of no rows,
\* every order it returns has the customer_id of a record of that set.
C1_OrdersReferenceSuppliedCustomers ==
    (CleanOrdersReturned /\ arg_customers # NoneVal) =>
        \A i \in 1..Len(ret.df.rows) :
            \E j \in 1..Len(arg_customers.rows) :
                arg_customers.rows[j].id = ret.df.rows[i].customer_id

\* C2: what clean_customers returns has no two records of one id, no two of
\* one normalized email, and in every record an integer id, a stripped name
\* that is not empty, an email of the grammar local@domain.tld and a parsed
\* join_date.
C2_CleanedCustomersValid ==
    CleanCustomersReturned =>
        LET rows == ret.df.rows
        IN  /\ \A i \in 1..Len(rows) :
                /\ rows[i].id.t = "num" /\ rows[i].id.v % 10 = 0
                /\ IsStr(rows[i].name)
                /\ Len(rows[i].name.s) > 0
                /\ StrStrip(rows[i].name.s) = rows[i].name.s
                /\ IsStr(rows[i].email)
                /\ MatchesPattern(rows[i].email.s)
                /\ rows[i].join_date.t = "ts"
            /\ \A i, j \in 1..Len(rows) :
                i # j => /\ rows[i].id # rows[j].id
                         /\ NormalizeEmail(rows[i].email) # NormalizeEmail(rows[j].email)

\* C2's case: two customers are kept and a row is dropped.
C2_Witness ==
    /\ CleanCustomersReturned
    /\ Len(ret.df.rows) = 2
    /\ Len(arg_df.rows) = 3

\* C3: every order clean_orders returns has total_amount > 0 and an
\* order_date in [now - 10 years, now], now the one instant of the call; a
\* row whose total_amount is 0, or whose order_date lies eleven years or
\* more before now, is not in the output.
C3_CleanedOrdersInWindow ==
    CleanOrdersReturned =>
        LET rows == ret.df.rows
            oldest == MinusYears(now, WindowYears)
            too_old == MinusYears(now, WindowYears + 1)
            Dropped(x) == \A i \in 1..Len(rows) : rows[i].idx # x.idx
        IN  /\ \A i \in 1..Len(rows) :
                /\ rows[i].total_amount = Inf
                   \/ (rows[i].total_amount.t = "num" /\ rows[i].total_amount.v > 0)
                /\ rows[i].order_date.t = "ts"
                /\ TsLeq(oldest, rows[i].order_date)
                /\ TsLeq(rows[i].order_date, now)
            /\ \A k \in 1..Len(arg_df.rows) :
                LET x == arg_df.rows[k]
                    date == ToDatetime(x.order_date)
                IN  /\ ToNumeric(x.total_amount) = Num(0) => Dropped(x)
                    /\ (date.t = "ts" /\ TsLeq(date, too_old)) => Dropped(x)

\* C3's case: an order is returned, of a dataset that holds an order dated
\* eleven years before the call.
C3_Witness ==
    /\ CleanOrdersReturned
    /\ Len(ret.df.rows) = 1
    /\ \E k \in 1..Len(arg_df.rows) :
        LET date == ToDatetime(arg_df.rows[k].order_date)
        IN  date.t = "ts" /\ date = MinusYears(now, WindowYears + 1)

\* C9: a cleaning function called on what it returned (the customer set
\* and the instant the same) returns just that.
C9_CleaningIdempotent ==
    ret_again # NoRet => (~ret_again.raised /\ ret_again.df = ret.df)

\* C9's case: clean_customers dropped a row, kept two, and was called on
\* the two.
C9_Witness ==
    /\ ret_again # NoRet
    /\ fn = "clean_customers"
    /\ Len(ret.df.rows) = 2
    /\ Len(arg_df.rows) = 3

\* Every customer_id of the orders that is a number is the id of a customer
\* of the set.
CoversCustomerIds(orders_df, customers_df) ==
    \A k \in 1..Len(orders_df.rows) :
        LET customer_id == ToNumeric(orders_df.rows[k].customer_id)
        IN  customer_id.t = "num" =>
                \E j \in 1..Len(customers_df.rows) : customers_df.rows[j].id = customer_id

\* C10: clean_orders without a customer set returns what it returns with a
\* customer set that has every customer_id of the orders; and with any
\* customer set it returns rows of what it returns without one.
C10_PlainEqualsCovered ==
    (fn = "clean_orders" /\ ret # NoRet /\ ret_plain # NoRet /\ arg_customers # NoneVal) =>
        /\ CoversCustomerIds(arg_df, arg_customers) => ret = ret_plain
        /\ (~ret.raised /\ ~ret_plain.raised) =>
                \A i \in 1..Len(ret.df.rows) :
                    \E j \in 1..Len(ret_plain.df.rows) :
                        ret_plain.df.rows[j] = ret.df.rows[i]

\* C10's case: both calls were made, the customer set has every customer_id
\* of the two orders, and an order is returned.
C10_Witness ==
    /\ fn = "clean_orders"
    /\ ret # NoRet
    /\ ret_plain # NoRet
    /\ arg_customers # NoneVal
    /\ Len(arg_customers.rows) = 2
    /\ Len(arg_df.rows) = 2
    /\ CoversCustomerIds(arg_df, arg_customers)
    /\ ~ret.raised
    /\ Len(ret.df.rows) >= 1

\* The cleaned dataset the run loads into a table
RunData(table_name) ==
    IF table_name = "customers" THEN customers_clean ELSE orders_clean

\* The table holds just the rows of the run's cleaned dataset.
Holds(engine, table_name) ==
    stores[engine][table_name] = Table(TableRows(RunData(table_name)))

\* The primary store showed itself unavailable in the call: it gave no
\* engine, or a step on its engine failed.
PrimaryFailedAtEngine(call) == call.env.config = "none"
PrimaryFailedLater(call) ==
    call.engine = "primary" /\ "failed" \in {call.env.connect, call.env.create, call.env.write}

\* The secondary store showed itself unavailable in the call.
SecondaryFailed(call) ==
    \/ call.env.mock = "none"
    \/ call.engine = "fallback"
       /\ "failed" \in {call.env.connect, call.env.create, call.env.write}

\* C4 as claimed: at whichever step of a load the primary store shows
\* itself unavailable, the load goes to the secondary store and, that store
\* available, writes the dataset there and returns True.
C4_FallbackAtAnyStep ==
    \A k \in 1..Len(loads) :
        LET call == loads[k]
        IN  ((PrimaryFailedAtEngine(call) \/ PrimaryFailedLater(call))
                /\ ~SecondaryFailed(call)) =>
                    /\ call.engine = "fallback"
                    /\ call.ret
                    /\ Holds("fallback", call.table_name)

\* C4 as amended: when get_db_config gives no engine, the load goes to the
\* secondary store and, that store available, writes the dataset there and
\* returns True; when a later step on the primary engine fails, the load
\* returns False and the secondary store is not asked.
C4_FallbackAtEngineOnly ==
    \A k \in 1..Len(loads) :
        LET call == loads[k]
        IN  /\ (PrimaryFailedAtEngine(call) /\ ~SecondaryFailed(call)) =>
                    /\ call.engine = "fallback"
                    /\ call.ret
                    /\ Holds("fallback", call.table_name)
            /\ PrimaryFailedLater(call) =>
                    /\ ~call.ret
                    /\ call.env.mock = "unasked"

\* C4's case: the primary store gave no engine and the customers went to
\* the secondary store.
C4_Witness ==
    /\ Len(loads) >= 1
    /\ loads[1].env.config = "none"
    /\ loads[1].engine = "fallback"
    /\ loads[1].ret
    /\ Holds("fallback", "customers")

RunReturned == pc \in {"returned", "exited"}

\* C5 as claimed: when a run reports success, the customers table and the
\* orders table hold the run's cleaned data, the cleaned orders empty or
\* not.
C5_SuccessReplacesBothTables ==
    (RunReturned /\ success) =>
        /\ \E engine \in DOMAIN stores : Holds(engine, "customers")
        /\ \E engine \in DOMAIN stores : Holds(engine, "orders")

\* C5 as amended: when a run reports success, the customers table it wrote
\* holds the run's cleaned customers; the cleaned orders not empty, the
\* orders table it wrote holds them; the cleaned orders empty, no orders
\* table was written, and each is as it was before the run.
C5_SuccessReplacesLoadedTables ==
    (RunReturned /\ success) =>
        /\ Len(loads) >= 1
        /\ loads[1].table_name = "customers"
        /\ Holds(loads[1].engine, "customers")
        /\ IF Empty(orders_clean)
           THEN /\ Len(loads) = 1
                /\ \A engine \in DOMAIN stores :
                    stores[engine].orders = run_start[engine].orders
           ELSE /\ Len(loads) = 2
                /\ loads[2].table_name = "orders"
                /\ Holds(loads[2].engine, "orders")

\* C5's case: a second run succeeds with no cleaned order, over the orders
\* the first run loaded.
C5_Witness ==
    /\ RunReturned
    /\ success
    /\ Empty(orders_clean)
    /\ \E engine \in DOMAIN stores :
        /\ stores[engine].orders # Absent
        /\ Len(stores[engine].orders.rows) = 2

\* C6: main exits with 0 or 1, and with 0 just when both extractions gave
\* data, both cleanings returned, a customer was left, the customers load
\* returned True and the orders load, made unless no order was left,
\* returned True.
C6_ExitCode ==
    pc = "exited" =>
        /\ exit_code \in {0, 1}
        /\ exit_code = 0 <=>
            /\ ~Empty(customers)
            /\ ~Empty(orders)
            /\ ~clean_customers(customers).raised
            /\ ~Empty(clean_customers(customers).df)
            /\ ~clean_orders(orders, clean_customers(customers).df, now).raised
            /\ Len(loads) >= 1
            /\ loads[1].table_name = "customers"
            /\ loads[1].ret
            /\ \/ Empty(clean_orders(orders, clean_customers(customers).df, now).df)
               \/ Len(loads) = 2 /\ loads[2].table_name = "orders" /\ loads[2].ret

\* C6's case: the run exits with 0 though no order was left to load.
C6_Witness ==
    /\ pc = "exited"
    /\ exit_code = 0
    /\ ~Empty(orders)
    /\ Empty(orders_clean)

\* The rows of a table, none when it is not there
TableContents(table) == IF table = Absent THEN <<>> ELSE table.rows

\* C7: a run that reports failure has loaded nothing: every table holds
\* the rows it held when the run started.
C7_FailedRunLoadsNothing ==
    (RunReturned /\ ~success) =>
        \A engine \in DOMAIN stores, table_name \in {"customers", "orders"} :
            TableContents(stores[engine][table_name])
                = TableContents(run_start[engine][table_name])

\* C8 as claimed: after a load that returned True the table holds just the
\* rows of the dataset, whether it was there before or not; and when it was
\* there the load did not go to create it.
C8_LoadReplacesSkipsCreation ==
    \A k \in 1..Len(loads) :
        LET call == loads[k]
        IN  call.ret =>
                /\ Holds(call.engine, call.table_name)
                /\ call.existed => ~call.creating

\* C8 as amended: after a load that returned True the table holds just the
\* rows of the dataset, whether it was there before or not (so that a
\* second load of the dataset leaves what the first left); and when it was
\* there and the existence query of the engine's dialect succeeded, the
\* load did not go to create it.
C8_LoadReplacesSkipsFoundTable ==
    \A k \in 1..Len(loads) :
        LET call == loads[k]
        IN  /\ call.ret => Holds(call.engine, call.table_name)
            /\ (call.existed /\ call.env.query = "ok") => ~call.creating

\* C8's case: a load returned True on a table that was there, with other
\* rows, and did not go to create it.
C8_Witness ==
    /\ Len(loads) >= 1
    /\ loads[1].ret
    /\ loads[1].existed
    /\ ~loads[1].creating
    /\ Holds(loads[1].engine, "customers")
    /\ run_start[loads[1].engine].customers # Absent
    /\ run_start[loads[1].engine].customers # stores[loads[1].engine].customers

\* The input row k of clean_customers reaches the removal of duplicate ids:
\* its id, name and email are there and its id is a number.
ReachesIdStep(k) ==
    LET x == arg_df.rows[k]
    IN  /\ ~IsNull(x.id) /\ ~IsNull(x.name) /\ ~IsNull(x.email)
        /\ ToNumeric(x.id).t = "num"

\* The id of such a row after the coercion
CoercedId(k) == AsTypeInt(ToNumeric(arg_df.rows[k].id))

\* The input row k is the first of its coerced id.
FirstOfId(k) ==
    /\ ReachesIdStep(k)
    /\ \A j \in 1..(k - 1) : ReachesIdStep(j) => CoercedId(j) # CoercedId(k)

\* The input row k is there after the emails' validation: the first of its
\* id, with a name and with an email of the grammar.
PassesEmailStep(k) ==
    LET x == arg_df.rows[k]
    IN  /\ FirstOfId(k)
        /\ IsStr(x.name) /\ Len(StrStrip(x.name.s)) > 0
        /\ IsStr(x.email) /\ MatchesPattern(StrStrip(StrLower(x.email.s)))

\* C11: of the rows of one coerced id that reach the removal of duplicate
\* ids, clean_customers returns none but the first, whatever the name, email
\* and join_date of the first or of the later ones; and of the rows of one
\* normalized email that are there after the emails' validation, it returns
\* none but the first.
C11_FirstOccurrenceKept ==
    CleanCustomersReturned =>
        \A i \in 1..Len(ret.df.rows) :
            LET k == ret.df.rows[i].idx + 1
            IN  /\ FirstOfId(k)
                /\ ret.df.rows[i].id = CoercedId(k)
                /\ PassesEmailStep(k)
                /\ \A j \in 1..(k - 1) :
                        PassesEmailStep(j) =>
                            StrStrip(StrLower(arg_df.rows[j].email.s)) # ret.df.rows[i].email.s

\* C11's case: the second row has the id of the first and the normalized
\* email of the third; the first and the third are returned, the second
\* was dropped for its id before the emails were compared.
C11_Witness ==
    /\ CleanCustomersReturned
    /\ Len(arg_df.rows) = 3
    /\ ReachesIdStep(1) /\ ReachesIdStep(2) /\ ReachesIdStep(3)
    /\ CoercedId(2) = CoercedId(1)
    /\ CoercedId(3) # CoercedId(1)
    /\ IsStr(arg_df.rows[2].email) /\ IsStr(arg_df.rows[3].email)
    /\ StrStrip(StrLower(arg_df.rows[2].email.s)) = StrStrip(StrLower(arg_df.rows[3].email.s))
    /\ Len(ret.df.rows) = 2
    /\ ret.df.rows[1].idx = 0
    /\ ret.df.rows[2].idx = 2

\* The cell is an integer, as it stands or as a string spells it.
IsInteger(c) == ToNumeric(c).t = "num" /\ ToNumeric(c).v % 10 = 0

\* The input row k is a valid customer: id, name and email are there, the
\* id is an integer no other row of the input has, the normalized email is
\* of the grammar and no other row of the input has it, the stripped name is
\* not empty and the join_date is a date.
ValidCustomerRow(k) ==
    LET x == arg_df.rows[k]
        others == (1..Len(arg_df.rows)) \ {k}
    IN  /\ IsInteger(x.id)
        /\ \A j \in others : ToNumeric(arg_df.rows[j].id) # ToNumeric(x.id)
        /\ IsStr(x.name) /\ Len(StrStrip(x.name.s)) > 0
        /\ IsStr(x.email) /\ MatchesPattern(StrStrip(StrLower(x.email.s)))
        /\ \A j \in others :
                IsStr(arg_df.rows[j].email) =>
                    StrStrip(StrLower(arg_df.rows[j].email.s)) # StrStrip(StrLower(x.email.s))
        /\ ToDatetime(x.join_date).t = "ts"

\* The input row k is a valid order: the id is an integer no other row of
\* the input has, the customer_id is an integer and, a customer set given,
\* the id of one of its customers, the total_amount is a positive number and
\* the order_date a date in [now - 10 years, now].
ValidOrderRow(k) ==
    LET x == arg_df.rows[k]
        others == (1..Len(arg_df.rows)) \ {k}
    IN  /\ IsInteger(x.id)
        /\ \A j \in others : ToNumeric(arg_df.rows[j].id) # ToNumeric(x.id)
        /\ IsInteger(x.customer_id)
        /\ arg_customers # NoneVal =>
                \E j \in 1..Len(arg_customers.rows) :
                    arg_customers.rows[j].id = ToNumeric(x.customer_id)
        /\ ToNumeric(x.total_amount).t = "num" /\ ToNumeric(x.total_amount).v > 0
        /\ ToDatetime(x.order_date).t = "ts"
        /\ TsLeq(MinusYears(now, WindowYears), ToDatetime(x.order_date))
        /\ TsLeq(ToDatetime(x.order_date), now)

\* The input row k is among the rows returned.
Retained(k) == \E i \in 1..Len(ret.df.rows) : ret.df.rows[i].idx = k - 1

\* C12: a cleaning function that returns has every valid row of its input
\* among the rows it returns, and returns the rows in the order they had in
\* the input.
C12_NoValidRowDropped ==
    /\ CleanCustomersReturned =>
            \A k \in 1..Len(arg_df.rows) : ValidCustomerRow(k) => Retained(k)
    /\ CleanOrdersReturned =>
            \A k \in 1..Len(arg_df.rows) : ValidOrderRow(k) => Retained(k)
    /\ (CleanCustomersReturned \/ CleanOrdersReturned) =>
            \A i, j \in 1..Len(ret.df.rows) :
                i < j => ret.df.rows[i].idx < ret.df.rows[j].idx

\* The cell is a finite number that is no integer.
IsFraction(c) == ToNumeric(c).t = "num" /\ ToNumeric(c).v % 10 # 0

\* C13: a cleaning function that returns has no row among the rows it
\* returns whose id, or for an order whose customer_id, was a number that
\* is no integer.
C13_FractionalKeyDropped ==
    /\ CleanCustomersReturned =>
            \A k \in 1..Len(arg_df.rows) :
                IsFraction(arg_df.rows[k].id) => ~Retained(k)
    /\ CleanOrdersReturned =>
            \A k \in 1..Len(arg_df.rows) :
                (IsFraction(arg_df.rows[k].id) \/ IsFraction(arg_df.rows[k].customer_id))
                    => ~Retained(k)

BothUnreachable(call) ==
    /\ call.env.config = "none"
    /\ \/ call.env.mock = "none"
       \/ call.engine = "fallback" /\ call.env.connect = "failed"

\* C15: no call of load_to_mysql raises; each returns True or False,
\* whatever the stores did to it, and False when neither store could be
\* reached.
C15_LoadNeverRaises ==
    \A k \in 1..Len(loads) :
        /\ ~loads[k].raised
        /\ loads[k].ret \in BOOLEAN
        /\ BothUnreachable(loads[k]) => ~loads[k].ret

\* C15's case: the customers load got no primary engine and could not
\* connect to the secondary store; the error of create_table_if_not_exists
\* was caught and False returned.
C15_Witness ==
    /\ Len(loads) >= 1
    /\ loads[1].env.config = "none"
    /\ loads[1].engine = "fallback"
    /\ loads[1].env.connect = "failed"
    /\ ~loads[1].raised
    /\ ~loads[1].ret
    /\ pc = "returned"

ToReject ==
    \/ Len(arg_df.rows) = 0
    \/ arg_df.cols = {}
    \/ arg_table \notin {"customers", "orders"}
    \/ arg_table = "customers"
       /\ \E c \in {"id", "name", "email", "join_date"} : c \notin arg_df.cols
    \/ arg_table = "orders"
       /\ \E c \in {"id", "customer_id", "order_date", "total_amount"} : c \notin arg_df.cols

\* C17: a call of load_to_mysql with a dataset and table name to reject
\* returns False, has asked nothing of a store, and leaves every table as
\* it was.
C17_InvalidDatasetRejected ==
    (fn = "load_to_mysql" /\ ToReject) =>
        /\ \A k \in 1..Len(loads) :
                /\ ~loads[k].ret
                /\ ~loads[k].raised
                /\ loads[k].engine = "none"
                /\ \A q \in DOMAIN loads[k].env : loads[k].env[q] = "unasked"
        /\ stores = run_start

\* C17's case: a customer without the column email was given for the
\* table customers, which the stores hold, and the call has returned.
C17_Witness ==
    /\ fn = "load_to_mysql"
    /\ Len(loads) >= 1
    /\ arg_table = "customers"
    /\ Len(arg_df.rows) = 1
    /\ "email" \notin arg_df.cols
    /\ stores.primary.customers # Absent
    /\ ~loads[1].ret

\* The input row k of clean_orders reaches the removal of duplicate ids:
\* its id, customer_id and total_amount are there and its id is a number.
OrderReachesIdStep(k) ==
    LET x == arg_df.rows[k]
    IN  /\ ~IsNull(x.id) /\ ~IsNull(x.customer_id) /\ ~IsNull(x.total_amount)
        /\ ToNumeric(x.id).t = "num"

\* The input row k is the first of its coerced id among such rows.
FirstOfOrderId(k) ==
    /\ OrderReachesIdStep(k)
    /\ \A j \in 1..(k - 1) : OrderReachesIdStep(j) => CoercedId(j) # CoercedId(k)

\* The total_amount of the input row k is there and is no positive number.
AmountPresentInvalid(k) ==
    LET amount == arg_df.rows[k].total_amount
    IN  ~IsNull(amount) /\ (ToNumeric(amount).t = "nan"
                            \/ (ToNumeric(amount).t = "num" /\ ToNumeric(amount).v <= 0))

\* The total_amount of the input row k is missing, no number, or <= 0.
AmountInvalid(k) == IsNull(arg_df.rows[k].total_amount) \/ AmountPresentInvalid(k)

\* The fields of the input row k other than its id are valid.
OrderFieldsValid(k) ==
    LET x == arg_df.rows[k]
    IN  /\ IsInteger(x.customer_id)
        /\ arg_customers # NoneVal =>
                \E j \in 1..Len(arg_customers.rows) :
                    arg_customers.rows[j].id = ToNumeric(x.customer_id)
        /\ ToNumeric(x.total_amount).t = "num" /\ ToNumeric(x.total_amount).v > 0
        /\ ToDatetime(x.order_date).t = "ts"
        /\ TsLeq(MinusYears(now, WindowYears), ToDatetime(x.order_date))
        /\ TsLeq(ToDatetime(x.order_date), now)

\* No returned order has the id.
IdLost(id) == \A i \in 1..Len(ret.df.rows) : ret.df.rows[i].id # id

\* C18 as claimed: when the first input row of an integer id has a
\* total_amount that is missing, no number or <= 0, and a later row of that
\* id is valid in every field, clean_orders returns no order of that id.
C18_InvalidFirstLosesId ==
    CleanOrdersReturned =>
        \A j, k \in 1..Len(arg_df.rows) :
            (/\ j < k
             /\ IsInteger(arg_df.rows[j].id)
             /\ ToNumeric(arg_df.rows[k].id) = ToNumeric(arg_df.rows[j].id)
             /\ \A i \in 1..(j - 1) :
                    ToNumeric(arg_df.rows[i].id) # ToNumeric(arg_df.rows[j].id)
             /\ AmountInvalid(j)
             /\ OrderFieldsValid(k))
                => IdLost(ToNumeric(arg_df.rows[j].id))

\* C18 as amended: when the first of the input rows of a coerced id that
\* have id, customer_id and total_amount has a total_amount that is no
\* number or <= 0, clean_orders returns no order of that id, whatever the
\* later rows of the id; and a later row of the id is returned only when
\* every earlier row of the id lacks one of the three fields.
C18_PresentInvalidFirstLosesId ==
    CleanOrdersReturned =>
        /\ \A j \in 1..Len(arg_df.rows) :
                (FirstOfOrderId(j) /\ AmountPresentInvalid(j)) => IdLost(CoercedId(j))
        /\ \A k \in 1..Len(arg_df.rows) : Retained(k) => FirstOfOrderId(k)

\* C18's case: the first row has a total_amount that is there and is not
\* valid, the second row has its id and is valid; nothing is returned.
C18_Witness ==
    /\ CleanOrdersReturned
    /\ Len(arg_df.rows) = 2
    /\ FirstOfOrderId(1)
    /\ AmountPresentInvalid(1)
    /\ OrderReachesIdStep(2)
    /\ CoercedId(2) = CoercedId(1)
    /\ OrderFieldsValid(2)
    /\ Len(ret.df.rows) = 0

\* Both extractions of the run have completed, with data.
Extracted == ~Empty(customers) /\ ~Empty(orders)

\* Both cleaning steps of the run have completed: the locals hold what the
\* cleaning functions return of the extracted data.
Cleaned ==
    /\ ~clean_customers(customers).raised
    /\ customers_clean = clean_customers(customers).df
    /\ ~clean_orders(orders, customers_clean, now).raised
    /\ orders_clean = clean_orders(orders, customers_clean, now).df

\* C19: in a run, a cleaning step starts, or has left its result, only
\* after both extractions; a load starts, or has been made, only after both
\* cleaning steps; and the orders load is made only after the customers
\* load, which returned True.
C19_StagesOrdered ==
    /\ (pc \in {"clean_customers", "clean_orders"}
            \/ customers_clean # EmptyFrame \/ orders_clean # EmptyFrame) => Extracted
    /\ pc = "clean_orders" =>
            /\ ~clean_customers(customers).raised
            /\ customers_clean = clean_customers(customers).df
    /\ (pc \in {"load_customers", "load_orders"} \/ Len(loads) >= 1) =>
            Extracted /\ Cleaned
    /\ Len(loads) <= 2
    /\ Len(loads) >= 1 => loads[1].table_name = "customers"
    /\ pc = "load_orders" => Len(loads) = 1 /\ loads[1].ret
    /\ Len(loads) = 2 => loads[1].ret /\ loads[2].table_name = "orders"

\* C19's case: a second run has made both loads, the orders load failing.
C19_Witness ==
    /\ runs = 2
    /\ pc = "returned"
    /\ Len(loads) = 2
    /\ loads[1].ret
    /\ ~loads[2].ret

\* C20: in each store, every row of the orders table has the customer_id
\* of a row of the customers table of that store.
C20_StoredOrdersReferenceStoredCustomers ==
    \A engine \in DOMAIN stores :
        stores[engine].orders # Absent =>
            \A i \in 1..Len(stores[engine].orders.rows) :
                /\ stores[engine].customers # Absent
                /\ \E j \in 1..Len(stores[engine].customers.rows) :
                        stores[engine].customers.rows[j].id
                            = stores[engine].orders.rows[i].customer_id

\* The run has loaded both datasets: its two load_to_mysql calls returned True.
LoadedBoth ==
    /\ Len(loads) = 2
    /\ loads[1].table_name = "customers"
    /\ loads[2].table_name = "orders"
    /\ loads[1].ret
    /\ loads[2].ret

\* C21: a run that loads both datasets writes the customers table and the
\* orders table to one store: the engine of the customers load is the
\* engine of the orders load.
C21_BothTablesInOneStore ==
    LoadedBoth => loads[1].engine = loads[2].engine

====
